---- MODULE Spec2Model ----
(***************************************************************************)
(* State-machine model of src/from.rs: the expansion of #[derive(From)]   *)
(* into implementations of ::std::convert::From.                           *)
(*                                                                         *)
(* expand dispatches on the body of the type definition.  The struct arms  *)
(* return one impl in a single step; the enum arm runs enum_from, whose    *)
(* two loops (collecting the newtype variants, emitting the unambiguous    *)
(* ones) are modelled one iteration per step.                              *)
(*                                                                         *)
(* Generated token streams are modelled structurally: an impl is a record  *)
(* of its source type, its target type and the constructor expression of   *)
(* its body.                                                               *)
(***************************************************************************)
EXTENDS Integers, Sequences, FiniteSets, TLC

\* ------------------------------------------------------------------ bounds
MaxFields == 3          \* largest number of fields of a struct
MaxVariants == 3        \* largest number of variants of an enum
MaxVariantFields == 2   \* largest number of fields of one variant

\* --------------------------------------------------------------- the input
\* Written forms of field types (syn::Ty compares and hashes structurally).
\* "String" and "string::String" are two spellings of one type.
TyPool == {"u8", "String", "string::String"}

\* The type a written form resolves to; the derive never computes this.
Denotes(ty) == IF ty = "string::String" THEN "String" ELSE ty

TypeIdents == {"Foo", "Bar"}

\* Option<Ident>::None of a positional field; named fields are 1, 2, ...
NoIdent == 0

SeqsUpTo(S, n) == UNION {[1..k -> S] : k \in 0..n}

Injective(f) == \A a, b \in DOMAIN f : f[a] = f[b] => a = b

MkField(id, t) == [ident |-> id, ty |-> t]

\* Fields of a tuple struct: no names.
TupleFields(n) ==
    {[k \in DOMAIN ts |-> MkField(NoIdent, ts[k])] : ts \in SeqsUpTo(TyPool, n)}

\* Fields of a braced struct: pairwise distinct names, in any order.
NamedFields(n) ==
    {[k \in DOMAIN ts |-> MkField(ns[k], ts[k])] :
        <<ns, ts>> \in {p \in SeqsUpTo(1..n, n) \X SeqsUpTo(TyPool, n) :
                          /\ Len(p[1]) = Len(p[2])
                          /\ Injective(p[1])}}

\* Field types of a variant's payload: no field, one field of any type, or
\* two to n fields of type u8.  Positional, or named by position.
Repeated(n) ==
    {<<>>} \cup {<<t>> : t \in TyPool} \cup {[k \in 1..m |-> "u8"] : m \in 2..n}

VariantTupleFields(n) ==
    {[k \in DOMAIN ts |-> MkField(NoIdent, ts[k])] : ts \in Repeated(n)}

VariantNamedFields(n) ==
    {[k \in DOMAIN ts |-> MkField(k, ts[k])] : ts \in Repeated(n)}

UnitData == [kind |-> "Unit", fields |-> <<>>]
TupleData(fs) == [kind |-> "Tuple", fields |-> fs]
StructData(fs) == [kind |-> "Struct", fields |-> fs]

StructBodies ==
    {UnitData}
        \cup {TupleData(fs) : fs \in TupleFields(MaxFields)}
        \cup {StructData(fs) : fs \in NamedFields(MaxFields)}

VariantPayloads ==
    {UnitData}
        \cup {TupleData(fs) : fs \in VariantTupleFields(MaxVariantFields)}
        \cup {StructData(fs) : fs \in VariantNamedFields(MaxVariantFields)}

\* Variants are named V1, V2, ... (here: 1, 2, ...) in declaration order.
VariantLists ==
    {[k \in DOMAIN ps |-> [ident |-> k, data |-> ps[k]]] :
        ps \in SeqsUpTo(VariantPayloads, MaxVariants)}

Bodies ==
    {[kind |-> "Struct", data |-> d, variants |-> <<>>] : d \in StructBodies}
        \cup {[kind |-> "Enum", data |-> UnitData, variants |-> vs] :
                vs \in VariantLists}

MacroInputs == {[ident |-> id, body |-> b] : id \in TypeIdents, b \in Bodies}

\* ------------------------------------------------------------ the output
\* The expression `original` (Whole) or `original.k` (k >= 0).
Whole == -1

\* A source type: a bare type (tuple = FALSE, one element) or the
\* parenthesised, comma separated list (#(#types),*).
BareTy(t) == [tuple |-> FALSE, tys |-> <<t>>]
TupleTy(ts) == [tuple |-> TRUE, tys |-> ts]

Arg(name, value) == [name |-> name, value |-> value]

\* impl ::std::convert::From<src> for target { fn from(original: src) -> target { ctor } }
\* where ctor is ty(args), ty{args} or ty::variant(args).
Impl(src, target, style, variant, args) ==
    [src |-> src, target |-> target,
     ctor |-> [style |-> style, ty |-> target, variant |-> variant, args |-> args]]

NoTokens == <<>>

Min(a, b) == IF a <= b THEN a ELSE b

\* ------------------------------------------------------------- utils
\* utils::number_idents(n): the identifiers 0, 1, ..., n-1.
number_idents(n) == [k \in 1..n |-> k - 1]

\* ------------------------------------------------------ struct emitters
newtype_from(input_type, original_type) ==
    <<Impl(BareTy(original_type), input_type, "paren", NoIdent,
           <<Arg(NoIdent, Whole)>>)>>

\* Variant of newtype_struct_from that takes the multi-field path.
newtype_struct_from_AsTuple(input_type, field) ==
    <<Impl(TupleTy(<<field.ty>>), input_type, "brace", NoIdent,
           <<Arg(field.ident, 0)>>)>>

newtype_struct_from(input_type, field) ==
    LET field_name == field.ident
        field_ty == field.ty
    IN  <<Impl(BareTy(field_ty), input_type, "brace", NoIdent,
               <<Arg(field_name, Whole)>>)>>

\* Variant of tuple_from that lists the tuple's types in reverse.
tuple_from_Reversed(input_type, fields) ==
    <<Impl(TupleTy([k \in DOMAIN fields |-> fields[Len(fields) + 1 - k].ty]),
           input_type, "paren", NoIdent,
           [k \in DOMAIN fields |-> Arg(NoIdent, k - 1)])>>

tuple_from(input_type, fields) ==
    LET field_names == number_idents(Len(fields))
        types == [k \in DOMAIN fields |-> fields[k].ty]
    IN  <<Impl(TupleTy(types), input_type, "paren", NoIdent,
               [k \in DOMAIN field_names |-> Arg(NoIdent, field_names[k])])>>

\* Variant of struct_from that emits nothing for a struct without fields.
struct_from_SkipsEmpty(input_type, fields) ==
    IF Len(fields) = 0 THEN NoTokens
    ELSE <<Impl(TupleTy([k \in DOMAIN fields |-> fields[k].ty]), input_type,
                "brace", NoIdent,
                [k \in DOMAIN fields |-> Arg(fields[k].ident, k - 1)])>>

struct_from(input_type, fields) ==
    LET argument_field_names == number_idents(Len(fields))
        types == [k \in DOMAIN fields |-> fields[k].ty]
        field_names == [k \in DOMAIN fields |-> fields[k].ident]
    IN  <<Impl(TupleTy(types), input_type, "brace", NoIdent,
               [k \in 1..Min(Len(field_names), Len(argument_field_names)) |->
                   Arg(field_names[k], argument_field_names[k])])>>

\* ------------------------------------------------------------ enum_from
\* HashMap::new()
EmptyMap == [k \in {} |-> 0]

\* HashMap::get: None is modelled as -1.
NoneCount == -1
MapGet(map, k) == IF k \in DOMAIN map THEN map[k] ELSE NoneCount

\* Variant of CountUp that overwrites the entry instead of adding to it.
CountUp_Overwrites(map, ty) ==
    [k \in DOMAIN map \cup {ty} |-> IF k = ty THEN 1 ELSE map[k]]

\* *type_counts.entry(ty).or_insert(0) += 1
CountUp(map, ty) ==
    LET m == IF ty \in DOMAIN map THEN map ELSE map @@ (ty :> 0)
    IN  [m EXCEPT ![ty] = @ + 1]

EmptyAcc == [types |-> <<>>, idents |-> <<>>, type_counts |-> EmptyMap]

\* Variant of CollectVariant without the test on the number of fields.
CollectVariant_AnyTuple(acc, variant) ==
    IF variant.data.kind = "Tuple" /\ Len(variant.data.fields) >= 1
    THEN LET ty == variant.data.fields[1].ty
         IN  [types |-> Append(acc.types, ty),
              idents |-> Append(acc.idents, variant.ident),
              type_counts |-> CountUp(acc.type_counts, ty)]
    ELSE acc

\* Variant of CollectVariant that also takes braced one-field variants.
CollectVariant_NamedToo(acc, variant) ==
    IF variant.data.kind \in {"Tuple", "Struct"} /\ Len(variant.data.fields) = 1
    THEN LET ty == variant.data.fields[1].ty
         IN  [types |-> Append(acc.types, ty),
              idents |-> Append(acc.idents, variant.ident),
              type_counts |-> CountUp(acc.type_counts, ty)]
    ELSE acc

\* Variant of CollectVariant that resolves the type before using it as key.
CollectVariant_Resolved(acc, variant) ==
    IF variant.data.kind = "Tuple" /\ Len(variant.data.fields) = 1
    THEN LET ty == Denotes(variant.data.fields[1].ty)
         IN  [types |-> Append(acc.types, ty),
              idents |-> Append(acc.idents, variant.ident),
              type_counts |-> CountUp(acc.type_counts, ty)]
    ELSE acc

\* One iteration of the first loop.
CollectVariant(acc, variant) ==
    IF variant.data.kind = "Tuple" /\ Len(variant.data.fields) = 1
    THEN LET ty == variant.data.fields[1].ty
         IN  [types |-> Append(acc.types, ty),
              idents |-> Append(acc.idents, variant.ident),
              type_counts |-> CountUp(acc.type_counts, ty)]
    ELSE acc

\* Variant of EmitVariant that does not skip ambiguous types.
EmitVariant_KeepsAmbiguous(enum_ident, ident, old_type, counts, toks) ==
    IF MapGet(counts, old_type) = NoneCount
    THEN [panicked |-> TRUE, tokens |-> toks]
    ELSE [panicked |-> FALSE,
          tokens |-> Append(toks,
              Impl(BareTy(old_type), enum_ident, "paren", ident,
                   <<Arg(NoIdent, Whole)>>))]

\* Variant of EmitVariant that puts each conversion in front of the others.
EmitVariant_Prepends(enum_ident, ident, old_type, counts, toks) ==
    IF MapGet(counts, old_type) = NoneCount
    THEN [panicked |-> TRUE, tokens |-> toks]
    ELSE IF MapGet(counts, old_type) # 1
    THEN [panicked |-> FALSE, tokens |-> toks]
    ELSE [panicked |-> FALSE,
          tokens |-> <<Impl(BareTy(old_type), enum_ident, "paren", ident,
                            <<Arg(NoIdent, Whole)>>)>> \o toks]

\* One iteration of the second loop: the tokens after it, or the panic of
\* the unwrap.
EmitVariant(enum_ident, ident, old_type, counts, toks) ==
    LET found == MapGet(counts, old_type)
    IN  IF found = NoneCount
        THEN [panicked |-> TRUE, tokens |-> toks]
        ELSE IF found # 1
        THEN [panicked |-> FALSE, tokens |-> toks]
        ELSE [panicked |-> FALSE,
              tokens |-> Append(toks,
                  Impl(BareTy(old_type), enum_ident, "paren", ident,
                       <<Arg(NoIdent, Whole)>>))]

RECURSIVE CollectAll(_, _, _)
CollectAll(acc, variants, k) ==
    IF k > Len(variants) THEN acc
    ELSE CollectAll(CollectVariant(acc, variants[k]), variants, k + 1)

RECURSIVE EmitAll(_, _, _, _)
EmitAll(enum_ident, acc, k, out) ==
    IF out.panicked \/ k > Min(Len(acc.idents), Len(acc.types)) THEN out
    ELSE EmitAll(enum_ident, acc, k + 1,
                 EmitVariant(enum_ident, acc.idents[k], acc.types[k],
                             acc.type_counts, out.tokens))

\* enum_from run to completion on a variant list.
enum_from(enum_ident, variants) ==
    EmitAll(enum_ident, CollectAll(EmptyAcc, variants, 1), 1,
            [panicked |-> FALSE, tokens |-> NoTokens])

\* -------------------------------------------------------- panic messages
ExpandPanicMsg ==
    <<"Only", "tuple", "structs", "and", "enums", "can", "derive", "From">>
UnwrapPanicMsg ==
    <<"called", "Option::unwrap()", "on", "a", "None", "value">>
NoMsg == <<>>

\* ------------------------------------------------------------- the state
VARIABLES
    input,        \* the MacroInput handed to expand
    pc,           \* "start", "collect", "emit", "done" or "panicked"
    i,            \* position of the running loop of enum_from
    types,        \* enum_from: field types of the newtype variants
    idents,       \* enum_from: identifiers of the newtype variants
    type_counts,  \* enum_from: occurrences of each field type
    tokens,       \* the Tokens built so far; returned when pc = "done"
    panic_msg     \* the message of the panic when pc = "panicked"

vars == <<input, pc, i, types, idents, type_counts, tokens, panic_msg>>

enumLocals == <<i, types, idents, type_counts>>

Init ==
    /\ input \in MacroInputs
    /\ pc = "start"
    /\ i = 0
    /\ types = <<>>
    /\ idents = <<>>
    /\ type_counts = EmptyMap
    /\ tokens = NoTokens
    /\ panic_msg = NoMsg

\* Body::Struct(VariantData::Tuple(ref fields))
ExpandTupleStruct ==
    /\ pc = "start"
    /\ input.body.kind = "Struct" /\ input.body.data.kind = "Tuple"
    /\ LET fields == input.body.data.fields
       IN  tokens' = IF Len(fields) = 1
                     THEN newtype_from(input.ident, fields[1].ty)
                     ELSE tuple_from(input.ident, fields)
    /\ pc' = "done"
    /\ UNCHANGED <<input, enumLocals, panic_msg>>

\* Body::Struct(VariantData::Struct(ref fields))
ExpandNamedStruct ==
    /\ pc = "start"
    /\ input.body.kind = "Struct" /\ input.body.data.kind = "Struct"
    /\ LET fields == input.body.data.fields
       IN  tokens' = IF Len(fields) = 1
                     THEN newtype_struct_from(input.ident, fields[1])
                     ELSE struct_from(input.ident, fields)
    /\ pc' = "done"
    /\ UNCHANGED <<input, enumLocals, panic_msg>>

\* Body::Enum(ref variants): enter enum_from.
ExpandEnum ==
    /\ pc = "start"
    /\ input.body.kind = "Enum"
    /\ types' = EmptyAcc.types
    /\ idents' = EmptyAcc.idents
    /\ type_counts' = EmptyAcc.type_counts
    /\ i' = 1
    /\ pc' = "collect"
    /\ UNCHANGED <<input, tokens, panic_msg>>

\* Variant of ExpandOther that returns empty Tokens instead of panicking.
ExpandOther_ReturnsEmpty ==
    /\ pc = "start"
    /\ ~(input.body.kind = "Struct" /\ input.body.data.kind \in {"Tuple", "Struct"})
    /\ input.body.kind # "Enum"
    /\ pc' = "done"
    /\ UNCHANGED <<input, enumLocals, tokens, panic_msg>>

\* The catch-all arm of expand.
ExpandOther ==
    /\ pc = "start"
    /\ ~(input.body.kind = "Struct" /\ input.body.data.kind \in {"Tuple", "Struct"})
    /\ input.body.kind # "Enum"
    /\ pc' = "panicked"
    /\ panic_msg' = ExpandPanicMsg
    /\ UNCHANGED <<input, enumLocals, tokens>>

\* for variant in variants { ... }
EnumCollect ==
    /\ pc = "collect"
    /\ i <= Len(input.body.variants)
    /\ LET acc == CollectVariant(
                      [types |-> types, idents |-> idents,
                       type_counts |-> type_counts],
                      input.body.variants[i])
       IN  /\ types' = acc.types
           /\ idents' = acc.idents
           /\ type_counts' = acc.type_counts
    /\ i' = i + 1
    /\ UNCHANGED <<input, pc, tokens, panic_msg>>

\* let mut tokens = Tokens::new();
EnumCollectDone ==
    /\ pc = "collect"
    /\ i > Len(input.body.variants)
    /\ tokens' = NoTokens
    /\ i' = 1
    /\ pc' = "emit"
    /\ UNCHANGED <<input, types, idents, type_counts, panic_msg>>

\* for (ident, old_type) in idents.iter().zip(types) { ... }
EnumEmit ==
    /\ pc = "emit"
    /\ i <= Min(Len(idents), Len(types))
    /\ LET out == EmitVariant(input.ident, idents[i], types[i],
                              type_counts, tokens)
       IN  IF out.panicked
           THEN /\ pc' = "panicked"
                /\ panic_msg' = UnwrapPanicMsg
                /\ UNCHANGED <<i, tokens>>
           ELSE /\ tokens' = out.tokens
                /\ i' = i + 1
                /\ UNCHANGED <<pc, panic_msg>>
    /\ UNCHANGED <<input, types, idents, type_counts>>

\* tokens
EnumReturn ==
    /\ pc = "emit"
    /\ i > Min(Len(idents), Len(types))
    /\ pc' = "done"
    /\ UNCHANGED <<input, enumLocals, tokens, panic_msg>>

Next ==
    \/ ExpandTupleStruct
    \/ ExpandNamedStruct
    \/ ExpandEnum
    \/ ExpandOther
    \/ EnumCollect
    \/ EnumCollectDone
    \/ EnumEmit
    \/ EnumReturn

Spec == Init /\ [][Next]_vars

TypeOK ==
    /\ input \in MacroInputs
    /\ pc \in {"start", "collect", "emit", "done", "panicked"}
    /\ i \in 0..(MaxVariants + 1)
    /\ Len(types) = Len(idents)

\* ------------------------------------------------------ claim vocabulary
IsEnum == input.body.kind = "Enum"
IsRecord == input.body.kind = "Struct" /\ input.body.data.kind \in {"Tuple", "Struct"}
Variants == input.body.variants
Fields == input.body.data.fields

\* A variant with a positional payload of exactly one field.
SingleFieldPositional(v) == v.data.kind = "Tuple" /\ Len(v.data.fields) = 1

\* Positions of the single-field positional variants of vs carrying type t.
Carriers(vs, t) ==
    {k \in DOMAIN vs : SingleFieldPositional(vs[k]) /\ vs[k].data.fields[1].ty = t}

\* The output holds a conversion from t constructing the variant named id.
Converts(toks, t, id) ==
    \E n \in DOMAIN toks : toks[n].src = BareTy(t) /\ toks[n].ctor.variant = id

\* Identifiers of the variants some conversion of the output constructs.
Converted(toks) == {toks[n].ctor.variant : n \in DOMAIN toks}

\* Position of the variant named id in the declaration.
DeclPos(vs, id) == CHOOSE k \in DOMAIN vs : vs[k].ident = id

Reorderings(vs) ==
    {[k \in DOMAIN vs |-> vs[p[k]]] :
        p \in {q \in [DOMAIN vs -> DOMAIN vs] : Injective(q)}}

Contains(msg, word) == \E n \in DOMAIN msg : msg[n] = word

\* ------------------------------------------------------------------- C1
\* C1: for an enum, a conversion from T constructing variant V is emitted
\* if and only if V is positional with exactly one field, of type T, and T
\* is the field type of exactly one single-field positional variant; every
\* emitted conversion wraps the value as Enum::V(original).
C1_UniqueTypesConvert ==
    (pc = "done" /\ IsEnum) =>
        /\ \A k \in DOMAIN Variants : \A t \in TyPool :
              Converts(tokens, t, Variants[k].ident)
                  <=> (k \in Carriers(Variants, t)
                          /\ Cardinality(Carriers(Variants, t)) = 1)
        /\ \A n \in DOMAIN tokens :
              /\ tokens[n].target = input.ident
              /\ tokens[n].ctor = [style |-> "paren", ty |-> input.ident,
                                   variant |-> tokens[n].ctor.variant,
                                   args |-> <<Arg(NoIdent, Whole)>>]
              /\ \E k \in DOMAIN Variants : Variants[k].ident = tokens[n].ctor.variant
              /\ ~tokens[n].src.tuple

\* V1(A), V2(B), V3(A): only B converts.
C1_Witness ==
    /\ pc = "done" /\ IsEnum /\ Len(Variants) = 3
    /\ Carriers(Variants, "u8") = {1, 3}
    /\ Carriers(Variants, "String") = {2}
    /\ Len(tokens) = 1 /\ Converts(tokens, "String", 2)

\* ------------------------------------------------------------------- C2
\* C2 as stated: expand on a record with zero fields, or on an enum with
\* zero variants, never succeeds.
ZeroShape ==
    \/ IsRecord /\ Len(Fields) = 0
    \/ IsEnum /\ Len(Variants) = 0

C2_ZeroShapeFails == ZeroShape => pc # "done"

\* C2 amended: a record with zero fields, positional or named, succeeds
\* with exactly one conversion, from the empty tuple () and constructing the
\* type with no arguments; an enum with zero variants succeeds with the
\* empty output; neither panics.
C2_ZeroShapeSucceeds ==
    ZeroShape =>
        /\ pc # "panicked"
        /\ (pc = "done" /\ IsRecord) =>
              tokens = <<Impl(TupleTy(<<>>), input.ident,
                              IF input.body.data.kind = "Tuple"
                              THEN "paren" ELSE "brace",
                              NoIdent, <<>>)>>
        /\ (pc = "done" /\ IsEnum) => tokens = NoTokens

C2_Witness ==
    /\ pc = "done" /\ IsRecord /\ Len(Fields) = 0
    /\ input.body.data.kind = "Struct" /\ Len(tokens) = 1

\* ------------------------------------------------------------------- C3
\* C3: variants with no data, with two or more positional fields (or none),
\* or with named fields never get a conversion and never count: the output
\* is the output for the single-field positional variants alone.
C3_OthersExcluded ==
    (pc = "done" /\ IsEnum) =>
        /\ \A k \in DOMAIN Variants :
              ~SingleFieldPositional(Variants[k])
                  => Variants[k].ident \notin Converted(tokens)
        /\ LET kept == enum_from(input.ident,
                                 SelectSeq(Variants, SingleFieldPositional))
           IN  ~kept.panicked /\ tokens = kept.tokens
        /\ \A t \in DOMAIN type_counts :
              type_counts[t] = Cardinality(Carriers(Variants, t))

\* V1(A), V2(A, B), V3{a: A}: the conversion from A produces V1.
C3_Witness ==
    /\ pc = "done" /\ IsEnum /\ Len(Variants) = 3
    /\ Carriers(Variants, "u8") = {1}
    /\ Variants[2].data.kind = "Tuple" /\ Len(Variants[2].data.fields) = 2
    /\ Variants[2].data.fields[1].ty = "u8"
    /\ Variants[3].data.kind = "Struct" /\ Len(Variants[3].data.fields) = 1
    /\ Variants[3].data.fields[1].ty = "u8"
    /\ Converts(tokens, "u8", 1) /\ Len(tokens) = 1

\* ------------------------------------------------------------------- C4
\* C4: a record with more than one field gets exactly one conversion, from
\* the tuple of the declared field types in declaration order, assigning
\* tuple element k to the field declared at position k, whatever its name.
C4_TupleByPosition ==
    (pc = "done" /\ IsRecord /\ Len(Fields) > 1) =>
        /\ Len(tokens) = 1
        /\ tokens[1].target = input.ident
        /\ tokens[1].src.tuple
        /\ Len(tokens[1].src.tys) = Len(Fields)
        /\ \A k \in DOMAIN Fields : tokens[1].src.tys[k] = Fields[k].ty
        /\ tokens[1].ctor.ty = input.ident
        /\ tokens[1].ctor.variant = NoIdent
        /\ tokens[1].ctor.style
              = (IF input.body.data.kind = "Tuple" THEN "paren" ELSE "brace")
        /\ Len(tokens[1].ctor.args) = Len(Fields)
        /\ \A k \in DOMAIN Fields :
              tokens[1].ctor.args[k] = Arg(Fields[k].ident, k - 1)

\* A named record whose field names are not declared in name order.
C4_Witness ==
    /\ pc = "done" /\ IsRecord /\ input.body.data.kind = "Struct"
    /\ Len(Fields) = 3
    /\ Fields[1].ident = 3 /\ Fields[2].ident = 1
    /\ Fields[1].ty # Fields[2].ty
    /\ Len(tokens) = 1

\* ------------------------------------------------------------------- C5
\* C5: a record with exactly one field of type T gets exactly one
\* conversion, from the bare type T, which puts the value in the sole slot
\* (positional) or in the declared field (named); a record with more fields
\* never gets a conversion from a bare type.
C5_Newtype ==
    (pc = "done" /\ IsRecord) =>
        /\ Len(Fields) = 1 =>
              tokens = <<[src |-> [tuple |-> FALSE, tys |-> <<Fields[1].ty>>],
                          target |-> input.ident,
                          ctor |-> [style |-> IF input.body.data.kind = "Tuple"
                                              THEN "paren" ELSE "brace",
                                    ty |-> input.ident,
                                    variant |-> NoIdent,
                                    args |-> <<Arg(Fields[1].ident, Whole)>>]]>>
        /\ Len(Fields) > 1 =>
              \A n \in DOMAIN tokens :
                  /\ tokens[n].src.tuple
                  /\ \A a \in DOMAIN tokens[n].ctor.args :
                        tokens[n].ctor.args[a].value # Whole

C5_Witness ==
    /\ pc = "done" /\ IsRecord /\ input.body.data.kind = "Struct"
    /\ Len(Fields) = 1 /\ Fields[1].ident # NoIdent
    /\ Len(tokens) = 1 /\ ~tokens[1].src.tuple

\* ------------------------------------------------------------------- C6
\* C6: the conversions of an enum appear in variant declaration order.
C6_DeclarationOrder ==
    (pc \in {"emit", "done"} /\ IsEnum) =>
        \A a, b \in DOMAIN tokens :
            a < b => DeclPos(Variants, tokens[a].ctor.variant)
                        < DeclPos(Variants, tokens[b].ctor.variant)

C6_Witness ==
    /\ pc = "done" /\ IsEnum /\ Len(tokens) = 3
    /\ tokens[1].ctor.variant = 1 /\ tokens[3].ctor.variant = 3

\* ------------------------------------------------------------------- C7
\* C7: an enum without any single-field positional variant makes enum_from
\* return the empty output, and it does so without panicking.
NoCandidates ==
    IsEnum /\ \A k \in DOMAIN Variants : ~SingleFieldPositional(Variants[k])

C7_EmptyIsSuccess ==
    NoCandidates =>
        /\ pc # "panicked"
        /\ pc \in {"emit", "done"} => tokens = NoTokens

C7_Witness ==
    /\ pc = "done" /\ NoCandidates /\ Len(Variants) = 3
    /\ Variants[1].data.kind = "Unit"
    /\ Variants[2].data.kind = "Tuple" /\ Len(Variants[2].data.fields) = 2
    /\ tokens = NoTokens

\* ------------------------------------------------------------------- C8
\* C8 as stated: a failing expand returns no output and its message
\* contains the identifier of the type being processed.
C8_PanicNamesType ==
    pc = "panicked" => tokens = NoTokens /\ Contains(panic_msg, input.ident)

\* C8 amended: expand fails exactly on a body that is neither a tuple
\* struct, a braced struct nor an enum; the failure is a panic that returns
\* no output, and its message is the fixed text "Only tuple structs and
\* enums can derive From" whatever the type: its identifier is not put in.
C8_PanicFixedMessage ==
    /\ pc = "panicked" =>
          /\ tokens = NoTokens
          /\ panic_msg = <<"Only", "tuple", "structs", "and", "enums",
                           "can", "derive", "From">>
          /\ ~IsEnum /\ ~IsRecord
    /\ (~IsEnum /\ ~IsRecord) => pc \in {"start", "panicked"}

C8_Witness ==
    /\ pc = "panicked" /\ input.body.data.kind = "Unit" /\ input.ident = "Foo"

\* ------------------------------------------------------------------- C9
\* C9: occurrences are counted per written form of the field type, so two
\* spellings of one type are two keys and each converts when its spelling
\* is unique; the counts and the set of converted variants are the same for
\* every permutation of the variant list.
C9_CountsByWrittenForm ==
    (pc \in {"emit", "done"} /\ IsEnum) =>
        /\ \A t \in TyPool :
              MapGet(type_counts, t)
                  = (IF Carriers(Variants, t) = {} THEN NoneCount
                     ELSE Cardinality(Carriers(Variants, t)))
        /\ pc = "done" =>
              \A k, m \in DOMAIN Variants :
                  LET v == Variants[k]
                      w == Variants[m]
                  IN  (/\ SingleFieldPositional(v) /\ SingleFieldPositional(w)
                       /\ v.data.fields[1].ty # w.data.fields[1].ty
                       /\ Denotes(v.data.fields[1].ty) = Denotes(w.data.fields[1].ty)
                       /\ Cardinality(Carriers(Variants, v.data.fields[1].ty)) = 1)
                          => Converts(tokens, v.data.fields[1].ty, v.ident)
        /\ \A vs \in Reorderings(Variants) :
              /\ CollectAll(EmptyAcc, vs, 1).type_counts = type_counts
              /\ pc = "done" =>
                    Converted(enum_from(input.ident, vs).tokens) = Converted(tokens)

\* V1(string::String), V2(String): two spellings of one type, both convert.
C9_Witness ==
    /\ pc = "done" /\ IsEnum /\ Len(Variants) = 2
    /\ Carriers(Variants, "String") = {2}
    /\ Carriers(Variants, "string::String") = {1}
    /\ Converted(tokens) = {1, 2}

\* ------------------------------------------------------------------ C10
\* C10: the conversions emitted so far have pairwise distinct source types
\* at every step, and every type looked up in the emission loop has an
\* entry of at least 1 in the occurrence counts, so the unwrap never fails.
C10_DistinctSources ==
    IsEnum =>
        /\ pc # "panicked"
        /\ \A a, b \in DOMAIN tokens :
              tokens[a].src = tokens[b].src => a = b
        /\ pc = "emit" =>
              \A k \in 1..Min(Len(idents), Len(types)) :
                  MapGet(type_counts, types[k]) >= 1

\* In the middle of the emission loop, after a skipped duplicate.
C10_Witness ==
    /\ pc = "emit" /\ IsEnum /\ i = 3 /\ Len(types) = 3
    /\ types[1] = types[2] /\ types[3] # types[1]
    /\ tokens = NoTokens

====
